---- MODULE Spec2Model ----
(***************************************************************************)
(* Block synchronization client of lotus (chain/blocksync).                *)
(*                                                                         *)
(* The model follows blocksync_client.go: the dispatch loops of GetBlocks  *)
(* and GetChainMessages, the request path sendRequestToPeer /              *)
(* fetchBlocksBlockSync, the response validator processBlocksResponse and  *)
(* the message fetcher fetchCids.  The peer tracker, the tipset            *)
(* constructor and the graphsync client live in other files of the         *)
(* package and are modelled from the specification.                        *)
(*                                                                         *)
(* The peer tracker is shared: while an operation runs, other goroutines   *)
(* call AddPeer and RemovePeer and a second request reports its outcome.   *)
(* These steps are interleaved with the operation's own; trackerCalls      *)
(* records the calls the operation itself makes to the tracker.            *)
(***************************************************************************)
EXTENDS Integers, Sequences, FiniteSets, TLC

(* ------------------------------ bounds --------------------------------- *)

\* Number of peers known to the peer tracker.
MaxPeers == 2

\* Longest chain a peer puts in a response.
MaxChain == 2

\* Largest count a caller asks for.
MaxCount == 1

\* The counts a caller asks for: nothing, and the largest.
Counts == {0, MaxCount}

\* Largest number of tracked peers with which GetBlocks is followed while a
\* second request is in flight.
MaxShared == 1

Peers == 1..MaxPeers

(* --------------------------- status codes ------------------------------ *)

StatusOK == 0

StatusPartial == 101

StatusNotFound == 201

StatusGoAway == 202

StatusInternalError == 203

StatusBadRequest == 204

\* A code outside the enumeration, for the default branches.
StatusUnknown == 299

ErrorStatuses ==
  {StatusNotFound, StatusGoAway, StatusInternalError, StatusBadRequest, StatusUnknown}

\* Size of the shuffled head of the peer list.
ShufflePrefixLen == 5

BlockSyncProtocolID == "blocksync"

gsproto == "graphsync"

(* ------------------------------ errors --------------------------------- *)

\* An error is the chain of its messages, outermost first; nil is <<>>.
NoErr == <<>>

\* xerrors.Errorf("msg: %w", cause)
Wrap(msg, cause) == <<msg>> \o cause

IsErr(e) == e # NoErr

(* ------------------------- headers and tipsets ------------------------- *)

Hdr(c, p, h) == [cid |-> c, parents |-> p, height |-> h]

\* Wire tipsets (BSTipSet.Blocks) a peer may send.
\* WA <- WB is a correctly linked chain walking backwards.
WA == <<Hdr(4, <<2, 3>>, 3)>>

\* two siblings, sent in descending cid order
WB == <<Hdr(3, <<1>>, 2), Hdr(2, <<1>>, 2)>>

\* siblings that disagree on their parents
WD == <<Hdr(2, <<1>>, 2), Hdr(3, <<>>, 2)>>

WireTipSets == {WA, WB, WD}

SeqsUpTo(S, n) == UNION {[1..k -> S] : k \in 0..n}

Range(s) == {s[i] : i \in DOMAIN s}

\* The sorted sequence of a set of cids.
RECURSIVE SortedSeq(_)
SortedSeq(S) ==
  IF S = {} THEN <<>>
  ELSE LET m == CHOOSE x \in S : \A y \in S : x <= y
       IN <<m>> \o SortedSeq(S \ {m})

\* types.NewTipSet: fails on an empty block list and on siblings that
\* disagree on parents or height; the cids of the tipset are sorted.
NewTipSet(blks) ==
  IF Len(blks) = 0 THEN [ok |-> FALSE, ts |-> <<>>]
  ELSE IF \E i \in DOMAIN blks :
            \/ blks[i].parents # blks[1].parents
            \/ blks[i].height # blks[1].height
       THEN [ok |-> FALSE, ts |-> <<>>]
       ELSE [ok |-> TRUE,
             ts |-> [cids |-> SortedSeq({blks[i].cid : i \in DOMAIN blks}),
                     parents |-> blks[1].parents,
                     height |-> blks[1].height]]

\* types.CidArrsEqual
CidArrsEqual(a, b) == a = b

\* Chains a peer may send. The validator reads a chain from the front and
\* returns at the first tipset that cannot be built or is not linked to the
\* one before it: the chains here have nothing after such a tipset.
Chains ==
  {ch \in SeqsUpTo(WireTipSets, MaxChain) :
     \A i \in 1..(Len(ch) - 1) :
       /\ NewTipSet(ch[i]).ok
       /\ i >= 2 =>
            /\ NewTipSet(ch[i - 1]).ok
            /\ CidArrsEqual(NewTipSet(ch[i - 1]).ts.parents, NewTipSet(ch[i]).ts.cids)}

(* ------------------------- response processing ------------------------- *)

Response(st, ch) == [Status |-> st, Chain |-> ch]

\* BlockSync.processStatus: every status it is called with maps to an error.
processStatus(rq, res) ==
  IF res.Status = StatusPartial
    THEN <<"not handling partial blocksync responses yet">>
  ELSE IF res.Status = StatusNotFound
    THEN <<"not found">>
  ELSE IF res.Status = StatusGoAway
    THEN <<"not handling 'go away' blocksync responses yet">>
  ELSE IF res.Status = StatusInternalError
    THEN <<"block sync peer errored">>
  ELSE IF res.Status = StatusBadRequest
    THEN <<"block sync request invalid">>
  ELSE <<"unrecognized response code: " \o ToString(res.Status)>>

\* processBlocksLoop without the comparison of cur's parents with next's cids.
RECURSIVE processBlocksLoopNoLink(_, _, _, _)
processBlocksLoopNoLink(chain, bi, cur, out) ==
  IF bi > Len(chain) THEN [err |-> NoErr, out |-> out]
  ELSE LET nts == NewTipSet(chain[bi])
       IN IF ~nts.ok THEN [err |-> <<"NewTipSet failed">>, out |-> <<>>]
          ELSE processBlocksLoopNoLink(chain, bi + 1, nts.ts, Append(out, nts.ts))

\* The loop of processBlocksResponse; bi is the (1-based) position of next.
RECURSIVE processBlocksLoop(_, _, _, _)
processBlocksLoop(chain, bi, cur, out) ==
  IF bi > Len(chain) THEN [err |-> NoErr, out |-> out]
  ELSE LET nts == NewTipSet(chain[bi])
       IN IF ~nts.ok THEN [err |-> <<"NewTipSet failed">>, out |-> <<>>]
          ELSE IF ~CidArrsEqual(cur.parents, nts.ts.cids)
            THEN [err |-> <<"parents of tipset[" \o ToString(bi - 2)
                            \o "] were not tipset[" \o ToString(bi - 1) \o "]">>,
                  out |-> <<>>]
          ELSE processBlocksLoop(chain, bi + 1, nts.ts, Append(out, nts.ts))

\* processBlocksResponse without the check of an empty chain.
processBlocksResponseEmptyOk(rq, res) ==
  IF Len(res.Chain) = 0
    THEN [err |-> NoErr, out |-> <<>>]
  ELSE LET cur == NewTipSet(res.Chain[1])
       IN IF ~cur.ok THEN [err |-> <<"NewTipSet failed">>, out |-> <<>>]
          ELSE processBlocksLoop(res.Chain, 2, cur.ts, <<cur.ts>>)

\* BlockSync.processBlocksResponse: the request is not looked at.
processBlocksResponse(rq, res) ==
  IF Len(res.Chain) = 0
    THEN [err |-> <<"got no blocks in successful blocksync response">>, out |-> <<>>]
  ELSE LET cur == NewTipSet(res.Chain[1])
       IN IF ~cur.ok THEN [err |-> <<"NewTipSet failed">>, out |-> <<>>]
          ELSE processBlocksLoop(res.Chain, 2, cur.ts, <<cur.ts>>)

(* ----------------------------- peer list ------------------------------- *)

Min(a, b) == IF a < b THEN a ELSE b

\* rand.Perm(n): the permutations of 1..n
Perms(n) == {f \in [1..n -> 1..n] : \A i, j \in 1..n : f[i] = f[j] => i = j}

\* shufflePrefix whose copy lands one position further.
shufflePrefixShifted(ps, perm) ==
  LET pref == Min(ShufflePrefixLen, Len(ps))
  IN [i \in 1..Len(ps) |->
        IF 2 <= i /\ i <= pref + 1 THEN ps[perm[i - 1]] ELSE ps[i]]

\* shufflePrefix with the permutation rand.Perm drew.
shufflePrefix(ps, perm) ==
  LET pref == Min(ShufflePrefixLen, Len(ps))
  IN [i \in 1..Len(ps) |-> IF i <= pref THEN ps[perm[i]] ELSE ps[i]]

\* bsPeerTracker.prefSortedPeers: a snapshot of the tracked peers ordered by
\* score, ties broken by peer identifier.  The snapshot is taken when no
\* latency has been observed, so every score is zero.
prefSortedPeers(trk) == SortedSeq(trk)

(* ------------------------------- state --------------------------------- *)

VARIABLES
  op,          \* the public operation of this run
  pc,          \* where the operation stands
  req,         \* the BlockSyncRequest built by the operation
  peers,       \* the shuffled snapshot the loop ranges over
  idx,         \* position of the loop in peers (1-based)
  oerr,        \* oerr of GetBlocks, err of GetChainMessages
  ret,         \* what the operation returned: [err, val]
  cancelled,   \* ctx.Done() is closed
  tracked,     \* peers the tracker knows
  succ,        \* tracker: success count per peer
  fail,        \* tracker: failure count per peer
  contacted,   \* peers sendRequestToPeer was called for, in call order
  opened,      \* peers host.NewStream was called for, in call order
  streams,     \* peers with a stream this operation opened and has not closed
  observed,    \* the error the most recent peer tried ended with
  lastRes,     \* the response to the request in progress, and the peer it came from
  cancelFailed,\* peers whose open, write or read failed after the cancellation
  trackerCalls,\* calls this operation made to the peer tracker, in order
  otherPc,     \* where a second request of the client, in flight meanwhile, stands
  globalSucc,  \* number of logGlobalSuccess calls of this operation
  tagged,      \* peers this operation tagged "bsync" in the connection manager
  fcids,       \* fetchCids: the cids asked for
  fi,          \* fetchCids: the loop counter i
  out,         \* FetchMessagesByCids: the output slice
  delivered,   \* cids of the blocks the block service has emitted, in order
  br,          \* UnmarshalCBOR: the CBOR headers the reader yields, in order
  t            \* UnmarshalCBOR: the DealMapping decoded into

fetchVars == <<fcids, fi, out, delivered>>

decodeVars == <<br, t>>

dispatchVars ==
  <<op, pc, req, peers, idx, oerr, ret, cancelled, tracked, succ, fail,
    contacted, opened, streams, observed, lastRes, cancelFailed, trackerCalls, otherPc, globalSucc,
    tagged>>

BSOptBlocks == 1

BSOptMessages == 2

\* Tipset keys a caller starts from: the key of the tipset of WA.
StartKeys == {<<4>>}

NilRet == [err |-> NoErr, val |-> <<>>]

\* No response received to the request in progress.
NoRes == [peer |-> 0, Status |-> -1, Chain |-> <<>>]

Received(p, res) == [peer |-> p, Status |-> res.Status, Chain |-> res.Chain]

CurPeer == peers[idx]

(* --------------------------- peer tracker ------------------------------ *)

\* bsPeerTracker.logSuccess: counts[p] + 1 for a tracked peer
logSuccess(counts, p) ==
  IF p \in tracked THEN [counts EXCEPT ![p] = @ + 1] ELSE counts

\* bsPeerTracker.logFailure: counts[p] + 1 for a tracked peer
logFailure(counts, p) ==
  IF p \in tracked THEN [counts EXCEPT ![p] = @ + 1] ELSE counts

\* BlockSync.RemovePeer / bsPeerTracker.removePeer: the entry is dropped
RemovePeer(p) ==
  /\ tracked' = tracked \ {p}
  /\ succ' = [succ EXCEPT ![p] = 0]
  /\ fail' = [fail EXCEPT ![p] = 0]

(* ----------------------- GetBlocks: the peer loop ---------------------- *)

\* GetBlocks, up to the loop: the request, the snapshot and its shuffle.
GetBlocks ==
  /\ op = "GetBlocks" /\ pc = "call"
  /\ \E tsk \in StartKeys, count \in Counts :
       req' = [Start |-> tsk, RequestLength |-> count, Options |-> BSOptBlocks]
  /\ \E perm \in Perms(Min(ShufflePrefixLen, Cardinality(tracked))) :
       peers' = shufflePrefix(prefSortedPeers(tracked), perm)
  /\ idx' = 1 /\ oerr' = NoErr /\ pc' = "loop"
  /\ UNCHANGED <<decodeVars, fetchVars, lastRes, op, ret, cancelled, tracked, succ, fail, contacted, opened,
                 streams, observed, cancelFailed, trackerCalls, otherPc, globalSucc, tagged>>

\* GetBlocksCancelled without the select: the peer is sent the request.
GetBlocksCancelledIgnored ==
  /\ op = "GetBlocks" /\ pc = "loop" /\ idx <= Len(peers)
  /\ cancelled
  /\ pc' = "send"
  /\ UNCHANGED <<decodeVars, fetchVars, lastRes, op, req, peers, idx, oerr, ret, cancelled,
                 tracked, succ, fail, contacted, opened, streams, observed,
                 cancelFailed, trackerCalls, otherPc, globalSucc, tagged>>

\* The select at the top of an iteration finds ctx.Done() closed.
GetBlocksCancelled ==
  /\ op = "GetBlocks" /\ pc = "loop" /\ idx <= Len(peers)
  /\ cancelled
  /\ ret' = [err |-> Wrap("blocksync getblocks failed", <<"context canceled">>),
             val |-> <<>>]
  /\ pc' = "done"
  /\ UNCHANGED <<decodeVars, fetchVars, lastRes, op, req, peers, idx, oerr, cancelled, tracked, succ, fail,
                 contacted, opened, streams, observed, cancelFailed, trackerCalls, otherPc, globalSucc,
                 tagged>>

\* The select takes its default branch: the peer is sent the request.
GetBlocksIter ==
  /\ op = "GetBlocks" /\ pc = "loop" /\ idx <= Len(peers)
  /\ ~cancelled
  /\ pc' = "send"
  /\ UNCHANGED <<decodeVars, fetchVars, lastRes, op, req, peers, idx, oerr, ret, cancelled, tracked, succ, fail,
                 contacted, opened, streams, observed, cancelFailed, trackerCalls, otherPc, globalSucc,
                 tagged>>

\* The range over peers is exhausted.
GetBlocksExhausted ==
  /\ op = "GetBlocks" /\ pc = "loop" /\ idx > Len(peers)
  /\ ret' = [err |-> Wrap("GetBlocks failed with all peers", oerr), val |-> <<>>]
  /\ pc' = "done"
  /\ UNCHANGED <<decodeVars, fetchVars, lastRes, op, req, peers, idx, oerr, cancelled, tracked, succ, fail,
                 contacted, opened, streams, observed, cancelFailed, trackerCalls, otherPc, globalSucc,
                 tagged>>

\* GetBlocksOnError keeping the first error instead of the latest.
GetBlocksOnErrorKeepFirst(e) ==
  /\ oerr' = IF oerr = NoErr THEN e ELSE oerr
  /\ idx' = idx + 1
  /\ pc' = "loop"
  /\ UNCHANGED <<ret, globalSucc, tagged>>

\* GetBlocks, sendRequestToPeer returned err: remember it, next peer.
GetBlocksOnError(e) ==
  /\ oerr' = e
  /\ idx' = idx + 1
  /\ pc' = "loop"
  /\ UNCHANGED <<ret, globalSucc, tagged>>

\* GetBlocksOnResponse treating a rejected chain as one more failed peer.
GetBlocksOnResponseSkipInvalid(res) ==
  IF res.Status = StatusOK \/ res.Status = StatusPartial
    THEN LET r == processBlocksResponse(req, res)
         IN IF IsErr(r.err)
              THEN /\ oerr' = r.err
                   /\ idx' = idx + 1
                   /\ pc' = "loop"
                   /\ UNCHANGED <<ret, globalSucc, tagged>>
              ELSE /\ globalSucc' = globalSucc + 1
                   /\ tagged' = tagged \cup {CurPeer}
                   /\ ret' = [err |-> NoErr, val |-> r.out]
                   /\ pc' = "done"
                   /\ UNCHANGED <<oerr, idx>>
    ELSE /\ oerr' = processStatus(req, res)
         /\ idx' = idx + 1
         /\ pc' = "loop"
         /\ UNCHANGED <<ret, globalSucc, tagged>>

\* GetBlocksOnResponse going on with the next peer after an accepted chain.
GetBlocksOnResponseKeepGoing(res) ==
  IF res.Status = StatusOK \/ res.Status = StatusPartial
    THEN LET r == processBlocksResponse(req, res)
         IN IF IsErr(r.err)
              THEN /\ ret' = [err |-> Wrap("success response from peer failed to process",
                                           r.err),
                              val |-> <<>>]
                   /\ pc' = "done"
                   /\ UNCHANGED <<oerr, idx, globalSucc, tagged>>
              ELSE /\ globalSucc' = globalSucc + 1
                   /\ tagged' = tagged \cup {CurPeer}
                   /\ ret' = [err |-> NoErr, val |-> r.out]
                   /\ idx' = idx + 1
                   /\ pc' = "loop"
                   /\ UNCHANGED oerr
    ELSE /\ oerr' = processStatus(req, res)
         /\ idx' = idx + 1
         /\ pc' = "loop"
         /\ UNCHANGED <<ret, globalSucc, tagged>>

\* GetBlocks, sendRequestToPeer returned res.
GetBlocksOnResponse(res) ==
  IF res.Status = StatusOK \/ res.Status = StatusPartial
    THEN LET r == processBlocksResponse(req, res)
         IN IF IsErr(r.err)
              THEN /\ ret' = [err |-> Wrap("success response from peer failed to process",
                                           r.err),
                              val |-> <<>>]
                   /\ pc' = "done"
                   /\ UNCHANGED <<oerr, idx, globalSucc, tagged>>
              ELSE /\ globalSucc' = globalSucc + 1
                   /\ tagged' = tagged \cup {CurPeer}
                   /\ ret' = [err |-> NoErr, val |-> r.out]
                   /\ pc' = "done"
                   /\ UNCHANGED <<oerr, idx>>
    ELSE /\ oerr' = processStatus(req, res)
         /\ idx' = idx + 1
         /\ pc' = "loop"
         /\ UNCHANGED <<ret, globalSucc, tagged>>

(* ------------------- GetChainMessages: the peer loop ------------------- *)

\* GetChainMessages, up to the loop.
GetChainMessages ==
  /\ op = "GetChainMessages" /\ pc = "call"
  /\ \E perm \in Perms(Min(ShufflePrefixLen, Cardinality(tracked))) :
       peers' = shufflePrefix(prefSortedPeers(tracked), perm)
  /\ \E h \in StartKeys, count \in Counts :
       req' = [Start |-> h, RequestLength |-> count, Options |-> BSOptMessages]
  /\ idx' = 1 /\ oerr' = NoErr /\ pc' = "loop"
  /\ UNCHANGED <<decodeVars, fetchVars, lastRes, op, ret, cancelled, tracked, succ, fail, contacted, opened,
                 streams, observed, cancelFailed, trackerCalls, otherPc, globalSucc, tagged>>

\* The next peer of the range: the request is sent, ctx is not looked at.
GetChainMessagesIter ==
  /\ op = "GetChainMessages" /\ pc = "loop" /\ idx <= Len(peers)
  /\ pc' = "send"
  /\ UNCHANGED <<decodeVars, fetchVars, lastRes, op, req, peers, idx, oerr, ret, cancelled, tracked, succ, fail,
                 contacted, opened, streams, observed, cancelFailed, trackerCalls, otherPc, globalSucc,
                 tagged>>

\* The range over peers is exhausted.
GetChainMessagesExhausted ==
  /\ op = "GetChainMessages" /\ pc = "loop" /\ idx > Len(peers)
  /\ ret' = IF oerr = NoErr
              THEN [err |-> <<"GetChainMessages failed, no peers connected">>,
                    val |-> <<>>]
              ELSE [err |-> Wrap("GetChainMessages failed with all peers("
                                 \o ToString(Len(peers)) \o ")", oerr),
                    val |-> <<>>]
  /\ pc' = "done"
  /\ UNCHANGED <<decodeVars, fetchVars, lastRes, op, req, peers, idx, oerr, cancelled, tracked, succ, fail,
                 contacted, opened, streams, observed, cancelFailed, trackerCalls, otherPc, globalSucc,
                 tagged>>

\* GetChainMessages, sendRequestToPeer returned rerr.
GetChainMessagesOnError(e) ==
  /\ oerr' = e
  /\ idx' = idx + 1
  /\ pc' = "loop"
  /\ UNCHANGED <<ret, globalSucc, tagged>>

\* GetChainMessages, sendRequestToPeer returned res.
GetChainMessagesOnResponse(res) ==
  IF res.Status = StatusOK
    THEN /\ globalSucc' = globalSucc + 1
         /\ ret' = [err |-> NoErr, val |-> res.Chain]
         /\ pc' = "done"
         /\ UNCHANGED <<oerr, idx, tagged>>
  ELSE IF res.Status = StatusPartial
    THEN /\ ret' = [err |-> NoErr, val |-> res.Chain]
         /\ pc' = "done"
         /\ UNCHANGED <<oerr, idx, globalSucc, tagged>>
  ELSE /\ oerr' = processStatus(req, res)
       /\ idx' = idx + 1
       /\ pc' = "loop"
       /\ UNCHANGED <<ret, globalSucc, tagged>>

(* ---------------------------- GetFullTipSet ---------------------------- *)

\* bstsToFullTipSet: the blocks of a wire tipset, each with its messages.
bstsToFullTipSet(bts) ==
  [fts |-> [Blocks |-> [i \in DOMAIN bts |-> [Header |-> bts[i]]]],
   err |-> NoErr]

\* GetFullTipSet up to its sendRequestToPeer call: the request is built and
\* sent to the peer the caller names.
GetFullTipSet ==
  /\ op = "GetFullTipSet" /\ pc = "call"
  /\ \E p \in Peers, start \in StartKeys :
       /\ req' = [Start |-> start, RequestLength |-> 1,
                  Options |-> BSOptBlocks + BSOptMessages]
       /\ peers' = <<p>>
  /\ idx' = 1
  /\ pc' = "send"
  /\ UNCHANGED <<decodeVars, fetchVars, lastRes, op, oerr, ret, cancelled, tracked, succ, fail,
                 contacted, opened, streams, observed, cancelFailed, trackerCalls, otherPc, globalSucc,
                 tagged>>

\* GetFullTipSet, sendRequestToPeer returned err.
GetFullTipSetOnError(e) ==
  /\ ret' = [err |-> e, val |-> <<>>]
  /\ pc' = "done"
  /\ UNCHANGED <<oerr, idx, globalSucc, tagged>>

\* GetFullTipSetOnResponse that takes a partial response like a full one.
GetFullTipSetOnResponsePartial(res) ==
  /\ ret' =
       IF res.Status \in {StatusOK, StatusPartial}
         THEN IF Len(res.Chain) = 0
                THEN [err |-> <<"got zero length chain response">>, val |-> <<>>]
                ELSE LET r == bstsToFullTipSet(res.Chain[1])
                     IN IF IsErr(r.err) THEN [err |-> r.err, val |-> <<>>]
                        ELSE [err |-> NoErr, val |-> <<r.fts>>]
       ELSE [err |-> <<"failed">>, val |-> <<>>]
  /\ pc' = "done"
  /\ UNCHANGED <<oerr, idx, globalSucc, tagged>>

\* GetFullTipSet, sendRequestToPeer returned res: the switch on res.Status.
GetFullTipSetOnResponse(res) ==
  /\ ret' =
       IF res.Status = StatusOK
         THEN IF Len(res.Chain) = 0
                THEN [err |-> <<"got zero length chain response">>, val |-> <<>>]
                ELSE LET r == bstsToFullTipSet(res.Chain[1])
                     IN IF IsErr(r.err) THEN [err |-> r.err, val |-> <<>>]
                        ELSE [err |-> NoErr, val |-> <<r.fts>>]
       ELSE IF res.Status = StatusPartial
         THEN [err |-> <<"partial responses are not handled for single tipset fetching">>,
               val |-> <<>>]
       ELSE IF res.Status = StatusNotFound
         THEN [err |-> <<"not found">>, val |-> <<>>]
       ELSE IF res.Status = StatusGoAway
         THEN [err |-> <<"received 'go away' response peer">>, val |-> <<>>]
       ELSE IF res.Status = StatusInternalError
         THEN [err |-> <<"block sync peer errored">>, val |-> <<>>]
       ELSE IF res.Status = StatusBadRequest
         THEN [err |-> <<"block sync request invalid">>, val |-> <<>>]
       ELSE [err |-> <<"unrecognized response code">>, val |-> <<>>]
  /\ pc' = "done"
  /\ UNCHANGED <<oerr, idx, globalSucc, tagged>>

(* --------------- the request path: sendRequestToPeer ------------------- *)

\* The caller's handling of an error from sendRequestToPeer.
OnError(e) ==
  IF op = "GetBlocks" THEN GetBlocksOnError(e)
  ELSE IF op = "GetFullTipSet" THEN GetFullTipSetOnError(e)
  ELSE GetChainMessagesOnError(e)

\* The caller's handling of a response from sendRequestToPeer.
OnResponse(res) ==
  IF op = "GetBlocks" THEN GetBlocksOnResponse(res)
  ELSE IF op = "GetFullTipSet" THEN GetFullTipSetOnResponse(res)
  ELSE GetChainMessagesOnResponse(res)

\* What host.Peerstore().SupportsProtocols may answer for the query
\* (blocksync, graphsync).
SuppOutcomes ==
  {[err |-> TRUE, protos |-> <<>>]} \cup
  {[err |-> FALSE, protos |-> s] :
     s \in {<<>>, <<BlockSyncProtocolID>>, <<gsproto>>,
            <<BlockSyncProtocolID, gsproto>>, <<"unknown">>}}

\* Causes a write or a read (with its decoding) can fail with.
IOCauses == IF cancelled THEN {"context canceled", "io error"} ELSE {"io error"}

\* Causes host.NewStream can fail with under the no-dial option.
OpenCauses == IF cancelled THEN {"context canceled", "ErrNoConn"} ELSE {"ErrNoConn"}

\* The call fn(CurPeer) this operation makes to the peer tracker.
TrackerCall(fn) == [fn |-> fn, peer |-> CurPeer]

\* A failure of the request to the current peer is attributed to the
\* cancellation when ctx was done by then.
NoteFailure ==
  cancelFailed' = IF cancelled THEN cancelFailed \cup {CurPeer} ELSE cancelFailed

\* sendRequestToPeerOn that takes the graph-transfer path whenever the peer
\* supports it and logs a failure against a peer without a known protocol.
sendRequestToPeerOnAnyOrder(supp) ==
  /\ pc = "send"
  /\ contacted' = Append(contacted, CurPeer)
  /\ IF supp.err
       THEN LET e == Wrap("failed to get protocols for peer", <<"peerstore error">>)
            IN observed' = e /\ OnError(e) /\ UNCHANGED fail
     ELSE IF Len(supp.protos) = 0
       THEN LET e == <<"peer " \o ToString(CurPeer)
                       \o " supports no known sync protocols">>
            IN observed' = e /\ OnError(e) /\ fail' = logFailure(fail, CurPeer)
     ELSE IF \E i \in DOMAIN supp.protos : supp.protos[i] = gsproto
       THEN /\ pc' = "gsync"
            /\ UNCHANGED <<observed, oerr, idx, ret, globalSucc, tagged, fail>>
     ELSE IF supp.protos[1] = BlockSyncProtocolID
       THEN /\ pc' = "open"
            /\ UNCHANGED <<observed, oerr, idx, ret, globalSucc, tagged, fail>>
     ELSE LET e == <<"peerstore somehow returned unexpected protocols">>
          IN observed' = e /\ OnError(e) /\ UNCHANGED fail
  /\ lastRes' = NoRes
  /\ UNCHANGED <<decodeVars, fetchVars, op, req, peers, cancelled, tracked, succ, opened,
                 streams, cancelFailed, trackerCalls, otherPc>>

\* sendRequestToPeer up to the protocol switch, SupportsProtocols having
\* answered supp.
sendRequestToPeerOn(supp) ==
  /\ pc = "send"
  /\ contacted' = Append(contacted, CurPeer)
  /\ IF supp.err
       THEN LET e == Wrap("failed to get protocols for peer", <<"peerstore error">>)
            IN observed' = e /\ OnError(e)
     ELSE IF Len(supp.protos) = 0
       THEN LET e == <<"peer " \o ToString(CurPeer)
                       \o " supports no known sync protocols">>
            IN observed' = e /\ OnError(e)
     ELSE IF supp.protos[1] = BlockSyncProtocolID
       THEN /\ pc' = "open"
            /\ UNCHANGED <<observed, oerr, idx, ret, globalSucc, tagged>>
     ELSE IF supp.protos[1] = gsproto
       THEN /\ pc' = "gsync"
            /\ UNCHANGED <<observed, oerr, idx, ret, globalSucc, tagged>>
     ELSE LET e == <<"peerstore somehow returned unexpected protocols">>
          IN observed' = e /\ OnError(e)
  /\ lastRes' = NoRes
  /\ UNCHANGED <<decodeVars, fetchVars, op, req, peers, cancelled, tracked, succ, fail, opened,
                 streams, cancelFailed, trackerCalls, otherPc>>

\* sendRequestToPeer, whatever SupportsProtocols answers.
sendRequestToPeer == \E supp \in SuppOutcomes : sendRequestToPeerOn(supp)

\* fetchBlocksBlockSync: host.NewStream with the no-dial context.
NewStream ==
  /\ pc = "open"
  /\ opened' = Append(opened, CurPeer)
  /\ \/ /\ pc' = "write"
        /\ streams' = streams \cup {CurPeer}
        /\ UNCHANGED <<tracked, succ, fail, observed, cancelFailed, trackerCalls, otherPc, oerr, idx, ret,
                       globalSucc, tagged>>
     \/ \E cause \in OpenCauses :
          LET e == Wrap("blocksync req failed",
                        Wrap("failed to open stream to peer", <<cause>>))
          IN /\ RemovePeer(CurPeer)
             /\ trackerCalls' = Append(trackerCalls, TrackerCall("RemovePeer"))
             /\ UNCHANGED otherPc
             /\ NoteFailure
             /\ observed' = e
             /\ OnError(e)
             /\ UNCHANGED streams
  /\ UNCHANGED <<decodeVars, fetchVars, lastRes, op, req, peers, cancelled, contacted>>

\* fetchBlocksBlockSync: cborutil.WriteCborRPC(stream, req).
WriteCborRPC ==
  /\ pc = "write"
  /\ \/ /\ pc' = "read"
        /\ UNCHANGED <<fail, observed, cancelFailed, trackerCalls, otherPc, oerr, idx, ret, globalSucc,
                       tagged>>
     \/ \E cause \in IOCauses :
          LET e == Wrap("blocksync req failed", <<cause>>)
          IN /\ fail' = logFailure(fail, CurPeer)
             /\ trackerCalls' = Append(trackerCalls, TrackerCall("logFailure"))
             /\ UNCHANGED otherPc
             /\ NoteFailure
             /\ observed' = e
             /\ OnError(e)
  /\ UNCHANGED <<decodeVars, fetchVars, lastRes, op, req, peers, cancelled, tracked, succ, contacted, opened,
                 streams>>

\* Responses a peer may send; a partial response carries fewer tipsets than
\* the longest full one.
Responses ==
  {Response(st, <<>>) : st \in ErrorStatuses} \cup
  {Response(StatusOK, ch) : ch \in Chains} \cup
  {Response(StatusPartial, ch) : ch \in {c \in Chains : Len(c) < MaxChain}}

\* The error a response ends the peer with, nil when it is OK or PARTIAL.
StatusError(res) ==
  IF res.Status = StatusOK \/ res.Status = StatusPartial THEN NoErr
  ELSE processStatus(req, res)

\* ReadCborRPC that also logs a failure when the response read carries an
\* error status.
ReadCborRPCStatusFailure ==
  /\ pc = "read"
  /\ \/ \E res \in Responses :
          /\ succ' = logSuccess(succ, CurPeer)
          /\ lastRes' = Received(CurPeer, res)
          /\ observed' = StatusError(res)
          /\ OnResponse(res)
          /\ fail' = IF IsErr(StatusError(res)) THEN logFailure(fail, CurPeer) ELSE fail
          /\ trackerCalls' =
               IF IsErr(StatusError(res))
                 THEN trackerCalls \o <<TrackerCall("logSuccess"), TrackerCall("logFailure")>>
                 ELSE Append(trackerCalls, TrackerCall("logSuccess"))
          /\ UNCHANGED otherPc
          /\ UNCHANGED cancelFailed
     \/ \E cause \in IOCauses :
          LET e == Wrap("blocksync req failed", <<cause>>)
          IN /\ fail' = logFailure(fail, CurPeer)
             /\ trackerCalls' = Append(trackerCalls, TrackerCall("logFailure"))
             /\ UNCHANGED otherPc
             /\ NoteFailure
             /\ observed' = e
             /\ OnError(e)
             /\ UNCHANGED <<succ, lastRes>>
  /\ UNCHANGED <<decodeVars, fetchVars, op, req, peers, cancelled, tracked, contacted, opened, streams>>

\* fetchBlocksBlockSync: cborutil.ReadCborRPC and what follows it.
ReadCborRPC ==
  /\ pc = "read"
  /\ \/ \E res \in Responses :
          /\ succ' = logSuccess(succ, CurPeer)
          /\ trackerCalls' = Append(trackerCalls, TrackerCall("logSuccess"))
          /\ UNCHANGED otherPc
          /\ lastRes' = Received(CurPeer, res)
          /\ observed' = StatusError(res)
          /\ OnResponse(res)
          /\ UNCHANGED <<fail, cancelFailed>>
     \/ \E cause \in IOCauses :
          LET e == Wrap("blocksync req failed", <<cause>>)
          IN /\ fail' = logFailure(fail, CurPeer)
             /\ trackerCalls' = Append(trackerCalls, TrackerCall("logFailure"))
             /\ UNCHANGED otherPc
             /\ NoteFailure
             /\ observed' = e
             /\ OnError(e)
             /\ UNCHANGED <<succ, lastRes>>
  /\ UNCHANGED <<decodeVars, fetchVars, op, req, peers, cancelled, tracked, contacted, opened, streams>>

\* Chains the graph-transfer path answers with: none, or one tipset, which
\* the validator builds or not.
GraphChains == SeqsUpTo(WireTipSets, 1)

\* fetchBlocksGraphSync: the graph-transfer path answers with a chain under
\* status OK or fails; the peer tracker is not told.
fetchBlocksGraphSync ==
  /\ pc = "gsync"
  /\ \/ \E ch \in GraphChains :
          /\ lastRes' = Received(CurPeer, Response(StatusOK, ch))
          /\ observed' = NoErr
          /\ OnResponse(Response(StatusOK, ch))
     \/ LET e == Wrap("graphsync req failed", <<"graphsync error">>)
        IN observed' = e /\ OnError(e) /\ UNCHANGED lastRes
  /\ UNCHANGED <<decodeVars, fetchVars, op, req, peers, cancelled, tracked, succ, fail, contacted, opened,
                 streams, cancelFailed, trackerCalls, otherPc>>

\* The caller cancels ctx.
Cancel ==
  /\ pc # "done"
  /\ ~cancelled
  /\ cancelled' = TRUE
  /\ UNCHANGED <<decodeVars, fetchVars, lastRes, op, pc, req, peers, idx, oerr, ret, tracked, succ, fail,
                 contacted, opened, streams, observed, cancelFailed, trackerCalls, otherPc, globalSucc,
                 tagged>>

\* BlockSync.AddPeer / bsPeerTracker.addPeer: a new entry with no
\* observations.
AddPeer(p) ==
  /\ tracked' = tracked \cup {p}
  /\ UNCHANGED <<succ, fail>>

\* Another goroutine calls bs.AddPeer(p) while the operation runs, after
\* the snapshot of the tracker was taken; a call before that is a larger
\* tracked set at the start, and a peer already tracked is left as it is.
AddPeerCall ==
  /\ pc \notin {"call", "done"}
  /\ \E p \in Peers \ tracked : AddPeer(p)
  /\ UNCHANGED <<decodeVars, fetchVars, lastRes, op, pc, req, peers, idx, oerr, ret,
                 cancelled, contacted, opened, streams, observed, cancelFailed, trackerCalls, otherPc,
                 globalSucc, tagged>>

\* Another goroutine calls bs.RemovePeer(p) while the operation runs, after
\* the snapshot of the tracker was taken; a call before that is a smaller
\* tracked set at the start.
RemovePeerCall ==
  /\ pc \notin {"call", "done"}
  /\ \E p \in tracked : RemovePeer(p)
  /\ UNCHANGED <<decodeVars, fetchVars, lastRes, op, pc, req, peers, idx, oerr, ret,
                 cancelled, contacted, opened, streams, observed, cancelFailed, trackerCalls, otherPc,
                 globalSucc, tagged>>

\* A second request of the client is in flight while the operation runs and
\* ends its fetchBlocksBlockSync for peer p, which its own snapshot held, by
\* logFailure(p) or by logSuccess(p); when it ends by bs.RemovePeer(p) the
\* step is RemovePeerCall.
OtherRequestEnds ==
  /\ pc \notin {"call", "done"}
  /\ otherPc = "running"
  /\ otherPc' = "done"
  /\ \E p \in Peers :
       \/ fail' = logFailure(fail, p) /\ UNCHANGED succ
       \/ succ' = logSuccess(succ, p) /\ UNCHANGED fail
  /\ UNCHANGED <<decodeVars, fetchVars, lastRes, op, pc, req, peers, idx, oerr, ret,
                 cancelled, tracked, contacted, opened, streams, observed,
                 cancelFailed, trackerCalls, globalSucc, tagged>>

(* ------------------------- message fetching ---------------------------- *)

\* Longest list of cids a caller asks for.
MaxCids == 2

\* Content identifiers of blocks the block service can emit.
MaxBlockCid == 3

BlockCids == 1..MaxBlockCid

\* Blocks whose bytes are not an encoded message.
Undecodable == {MaxBlockCid}

\* blocks.Block: content-addressed, the bytes determine the cid
Block(c) == [cid |-> c, raw |-> <<"bytes", c>>]

\* A nil entry of the output slice.
Nil == [kind |-> "nil", cid |-> 0]

\* types.DecodeMessage / types.DecodeSignedMessage: bytes to a typed message
Decode(kind, raw) ==
  IF raw[2] \in Undecodable THEN [ok |-> FALSE, msg |-> Nil]
  ELSE [ok |-> TRUE, msg |-> [kind |-> kind, cid |-> raw[2]]]

MsgKind == IF op = "FetchMessagesByCids" THEN "Message" ELSE "SignedMessage"

\* cidIndex of fetchCids: the last position of each cid (0-based), -1 if absent
cidIndex(cs, c) ==
  IF \E i \in DOMAIN cs : cs[i] = c
    THEN (CHOOSE i \in DOMAIN cs : cs[i] = c /\ \A j \in DOMAIN cs : cs[j] = c => j <= i) - 1
    ELSE -1

dispatchOnly ==
  <<req, peers, idx, oerr, cancelled, tracked, succ, fail, contacted, opened,
    streams, observed, lastRes, cancelFailed, trackerCalls, otherPc, globalSucc, tagged>>

\* The for loop of fetchCids ends and the Fetch function returns out.
FetchReturn(i, o) ==
  IF i < Len(fcids)
    THEN /\ pc' = "recv"
         /\ UNCHANGED ret
    ELSE /\ pc' = "done"
         /\ ret' = [err |-> NoErr, val |-> o]

\* fetchCids or the callback fails: the Fetch function returns nil, err.
FetchFail(msg) ==
  /\ pc' = "done"
  /\ ret' = [err |-> <<msg>>, val |-> <<>>]

\* FetchMessagesByCids / FetchSignedMessagesByCids up to the first receive.
FetchMessagesByCids ==
  /\ op \in {"FetchMessagesByCids", "FetchSignedMessagesByCids"}
  /\ pc = "call"
  /\ out' = [i \in 1..Len(fcids) |-> Nil]
  /\ fi' = 0
  /\ FetchReturn(0, <<>>)
  /\ UNCHANGED <<decodeVars, dispatchOnly, op, fcids, delivered>>

\* fetchCidsBlock whose callback stores without the out[i] != nil check and
\* whose loop skips a block it did not ask for.
fetchCidsBlockUnchecked ==
  /\ pc = "recv"
  /\ \E c \in BlockCids :
       LET block == Block(c)
           ix == cidIndex(fcids, block.cid)
           d == Decode(MsgKind, block.raw)
       IN /\ delivered' = Append(delivered, c)
          /\ IF ix = -1
               THEN /\ fi' = fi + 1
                    /\ FetchReturn(fi + 1, out)
                    /\ UNCHANGED out
             ELSE IF ~d.ok
               THEN FetchFail("decode failed") /\ UNCHANGED <<out, fi>>
             ELSE /\ out' = [out EXCEPT ![ix + 1] = d.msg]
                  /\ fi' = fi + 1
                  /\ FetchReturn(fi + 1, out')
  /\ UNCHANGED <<decodeVars, dispatchOnly, op, fcids>>

\* fetchCids: a block arrives on the channel (case block, ok with ok true).
fetchCidsBlock ==
  /\ pc = "recv"
  /\ \E c \in BlockCids :
       LET block == Block(c)
           ix == cidIndex(fcids, block.cid)
           d == Decode(MsgKind, block.raw)
       IN /\ delivered' = Append(delivered, c)
          /\ IF ix = -1
               THEN FetchFail("received message we didnt ask for")
                    /\ UNCHANGED <<out, fi>>
             ELSE IF ~d.ok
               THEN FetchFail("decode failed") /\ UNCHANGED <<out, fi>>
             ELSE IF out[ix + 1] # Nil
               THEN FetchFail("received duplicate message") /\ UNCHANGED <<out, fi>>
             ELSE /\ out' = [out EXCEPT ![ix + 1] = d.msg]
                  /\ fi' = fi + 1
                  /\ FetchReturn(fi + 1, out')
  /\ UNCHANGED <<decodeVars, dispatchOnly, op, fcids>>

\* fetchCids: the channel is closed (case block, ok with ok false).
fetchCidsClosed ==
  /\ pc = "recv"
  /\ IF fi = Len(fcids) - 1
       THEN /\ fi' = fi + 1
            /\ FetchReturn(fi + 1, out)
       ELSE /\ FetchFail("failed to fetch all messages")
            /\ UNCHANGED fi
  /\ UNCHANGED <<decodeVars, dispatchOnly, op, fcids, out, delivered>>

(* ----------------------- shufflePrefix on its own ---------------------- *)

\* Longest peer list shufflePrefix is called with.
MaxList == 6

\* The snapshots prefSortedPeers hands to shufflePrefix: any set of peers,
\* in the tracker's order.
PeerLists == {prefSortedPeers(S) : S \in SUBSET (1..MaxList)}

\* The call shufflePrefix(peers).
shufflePrefixCall ==
  /\ op = "shufflePrefix" /\ pc = "call"
  /\ \E perm \in Perms(Min(ShufflePrefixLen, Len(peers))) :
       peers' = shufflePrefix(peers, perm)
  /\ pc' = "done"
  /\ UNCHANGED <<decodeVars, fetchVars, lastRes, op, req, idx, oerr, ret, cancelled,
                 tracked, succ, fail, contacted, opened, streams, observed,
                 cancelFailed, trackerCalls, otherPc, globalSucc, tagged>>

(* ------------------------ DealMapping decoding ------------------------- *)

\* Most CBOR headers a reader yields, beside the two long streams.
MaxHeaders == 5

\* CBOR major types of cbor-gen.
MajUnsignedInt == 0

MajArray == 4

MajOther == 7

\* Number of fields of a DealMapping.
DealMappingFields == 3

\* Longest DealIDs array UnmarshalCBOR takes.
MaxDealIDs == 8192

\* CBOR simple values of false and true.
CborFalse == 20

CborTrue == 21

\* What cbg.CborReadHeader returns for one header: major type and argument.
CborHeader(maj, extra) == [maj |-> maj, extra |-> extra]

\* The zero DealMapping.
ZeroDealMapping == [DealIDs |-> <<>>, Allocated |-> 0, Committed |-> FALSE]

\* cbg.CborReadHeader on the k-th header of the stream s: past the end of
\* the input it fails.
CborReadHeader(s, k) ==
  IF k <= Len(s)
    THEN [err |-> NoErr, maj |-> s[k].maj, extra |-> s[k].extra]
    ELSE [err |-> <<"unexpected EOF">>, maj |-> 0, extra |-> 0]

\* The result of UnmarshalCBOR: its error and the receiver as it leaves it.
Decoded(e, dm) == [err |-> e, t |-> dm]

\* UnmarshalCBOR, t.Committed (bool), read from the k-th header.
UnmarshalCommitted(dm, s, k) ==
  LET h == CborReadHeader(s, k)
  IN IF IsErr(h.err) THEN Decoded(h.err, dm)
     ELSE IF h.maj # MajOther
       THEN Decoded(<<"booleans must be major type 7">>, dm)
     ELSE IF h.extra = CborFalse
       THEN Decoded(NoErr, [dm EXCEPT !.Committed = FALSE])
     ELSE IF h.extra = CborTrue
       THEN Decoded(NoErr, [dm EXCEPT !.Committed = TRUE])
     ELSE Decoded(<<"booleans are either major type 7, value 20 or 21 (got "
                    \o ToString(h.extra) \o ")">>, dm)

\* UnmarshalCBOR, t.Allocated (uint64), read from the k-th header.
UnmarshalAllocated(dm, s, k) ==
  LET h == CborReadHeader(s, k)
  IN IF IsErr(h.err) THEN Decoded(h.err, dm)
     ELSE IF h.maj # MajUnsignedInt
       THEN Decoded(<<"wrong type for uint64 field">>, dm)
     ELSE UnmarshalCommitted([dm EXCEPT !.Allocated = h.extra], s, k + 1)

\* UnmarshalDealIDs whose length check lets one more element through.
UnmarshalDealIDsOffByOne(dm, s, k) ==
  LET h == CborReadHeader(s, k)
  IN IF IsErr(h.err) THEN Decoded(h.err, dm)
     ELSE IF h.extra > MaxDealIDs + 1
       THEN Decoded(<<"t.DealIDs: array too large (" \o ToString(h.extra) \o ")">>, dm)
     ELSE IF h.maj # MajArray THEN Decoded(<<"expected cbor array">>, dm)
     ELSE
       LET n == h.extra
           avail == Min(n, Len(s) - k)
           notUint == {i \in 1..avail : s[k + i].maj # MajUnsignedInt}
           stop == IF notUint # {}
                     THEN CHOOSE i \in notUint : \A j \in notUint : i <= j
                     ELSE avail + 1
           ids == [i \in 1..n |-> IF i < stop THEN s[k + i].extra ELSE 0]
           dm1 == IF n > 0 THEN [dm EXCEPT !.DealIDs = ids] ELSE dm
       IN IF stop > n THEN UnmarshalAllocated(dm1, s, k + n + 1)
          ELSE IF stop \in notUint
            THEN Decoded(<<"value read for array t.DealIDs was not a uint, instead got "
                           \o ToString(s[k + stop].maj)>>, dm1)
          ELSE Decoded(Wrap("failed to read uint64 for t.DealIDs slice",
                            CborReadHeader(s, k + stop).err), dm1)

\* UnmarshalCBOR, t.DealIDs ([]uint64), read from the k-th header on: the
\* loop stops at the first element that cannot be read or is not a uint.
UnmarshalDealIDs(dm, s, k) ==
  LET h == CborReadHeader(s, k)
  IN IF IsErr(h.err) THEN Decoded(h.err, dm)
     ELSE IF h.extra > MaxDealIDs
       THEN Decoded(<<"t.DealIDs: array too large (" \o ToString(h.extra) \o ")">>, dm)
     ELSE IF h.maj # MajArray THEN Decoded(<<"expected cbor array">>, dm)
     ELSE
       LET n == h.extra
           avail == Min(n, Len(s) - k)
           notUint == {i \in 1..avail : s[k + i].maj # MajUnsignedInt}
           stop == IF notUint # {}
                     THEN CHOOSE i \in notUint : \A j \in notUint : i <= j
                     ELSE avail + 1
           ids == [i \in 1..n |-> IF i < stop THEN s[k + i].extra ELSE 0]
           dm1 == IF n > 0 THEN [dm EXCEPT !.DealIDs = ids] ELSE dm
       IN IF stop > n THEN UnmarshalAllocated(dm1, s, k + n + 1)
          ELSE IF stop \in notUint
            THEN Decoded(<<"value read for array t.DealIDs was not a uint, instead got "
                           \o ToString(s[k + stop].maj)>>, dm1)
          ELSE Decoded(Wrap("failed to read uint64 for t.DealIDs slice",
                            CborReadHeader(s, k + stop).err), dm1)

\* DealMapping.UnmarshalCBOR on the header stream s, decoding into dm.
UnmarshalCBOR(dm, s) ==
  LET h == CborReadHeader(s, 1)
  IN IF IsErr(h.err) THEN Decoded(h.err, dm)
     ELSE IF h.maj # MajArray
       THEN Decoded(<<"cbor input should be of type array">>, dm)
     ELSE IF h.extra # DealMappingFields
       THEN Decoded(<<"cbor input had wrong number of fields">>, dm)
     ELSE UnmarshalDealIDs(dm, s, 2)

\* Headers the short streams are made of.
Headers ==
  {CborHeader(MajArray, DealMappingFields), CborHeader(MajArray, 0),
   CborHeader(MajArray, 1), CborHeader(MajArray, MaxDealIDs + 1),
   CborHeader(MajUnsignedInt, 1), CborHeader(MajUnsignedInt, DealMappingFields),
   CborHeader(MajOther, CborFalse), CborHeader(MajOther, CborTrue),
   CborHeader(MajOther, CborTrue + 1)}

\* The encoding of a DealMapping with n deal ids, cut after its first len
\* headers.
LongStream(n, len) ==
  [i \in 1..len |->
     IF i = 1 THEN CborHeader(MajArray, DealMappingFields)
     ELSE IF i = 2 THEN CborHeader(MajArray, n)
     ELSE IF i <= n + 2 THEN CborHeader(MajUnsignedInt, i - 2)
     ELSE IF i = n + 3 THEN CborHeader(MajUnsignedInt, 7)
     ELSE CborHeader(MajOther, CborTrue)]

\* Streams around the length limit: whole, and cut before the last header.
LongStreams ==
  {LongStream(n, n + 4) : n \in {MaxDealIDs, MaxDealIDs + 1}} \cup
  {LongStream(MaxDealIDs, MaxDealIDs + 3)}

\* The call t.UnmarshalCBOR(r).
UnmarshalCBORCall ==
  /\ op = "UnmarshalCBOR" /\ pc = "call"
  /\ LET r == UnmarshalCBOR(t, br)
     IN /\ t' = r.t
        /\ ret' = [err |-> r.err, val |-> <<>>]
  /\ pc' = "done"
  /\ UNCHANGED <<fetchVars, br, op, req, peers, idx, oerr, cancelled, tracked, succ,
                 fail, contacted, opened, streams, observed, lastRes, cancelFailed, trackerCalls, otherPc,
                 globalSucc, tagged>>

(* --------------------------- specifications ---------------------------- *)

vars == <<dispatchVars, fetchVars, decodeVars>>

NoReq == [Start |-> <<>>, RequestLength |-> 0, Options |-> 0]

\* A client whose tracker has been told of some peers, none observed yet.
InitDispatch ==
  /\ pc = "call"
  /\ req = NoReq
  /\ peers = <<>> /\ idx = 1 /\ oerr = NoErr /\ ret = NilRet
  /\ cancelled = FALSE
  /\ tracked \in {1..k : k \in 0..MaxPeers}
  /\ succ = [p \in Peers |-> 0]
  /\ fail = [p \in Peers |-> 0]
  /\ contacted = <<>> /\ opened = <<>> /\ streams = {}
  /\ observed = NoErr /\ lastRes = NoRes /\ cancelFailed = {} /\ trackerCalls = <<>>
  /\ globalSucc = 0 /\ tagged = {}
  /\ fcids = <<>> /\ fi = 0 /\ out = <<>> /\ delivered = <<>>
  /\ br = <<>> /\ t = ZeroDealMapping

\* GetBlocks is called while a second request is in flight when the tracker
\* holds MaxShared peers at most, and on its own with more.
InitGetBlocks ==
  /\ op = "GetBlocks"
  /\ InitDispatch
  /\ otherPc = IF Cardinality(tracked) <= MaxShared THEN "running" ELSE "done"

InitGetChainMessages == op = "GetChainMessages" /\ InitDispatch /\ otherPc = "running"

InitGetFullTipSet == op = "GetFullTipSet" /\ InitDispatch /\ otherPc = "running"

\* Any of the three operations that send a request, with a snapshot of at
\* most one peer: one call of sendRequestToPeer.
InitRequests ==
  /\ op \in {"GetBlocks", "GetChainMessages", "GetFullTipSet"}
  /\ InitDispatch
  /\ Cardinality(tracked) <= 1
  /\ otherPc = "running"

InitFetch ==
  /\ op \in {"FetchMessagesByCids", "FetchSignedMessagesByCids"}
  /\ pc = "call"
  /\ fcids \in SeqsUpTo(BlockCids, MaxCids)
  /\ fi = 0 /\ out = <<>> /\ delivered = <<>>
  /\ ret = NilRet
  /\ req = NoReq
  /\ peers = <<>> /\ idx = 1 /\ oerr = NoErr
  /\ cancelled = FALSE
  /\ tracked = {}
  /\ succ = [p \in Peers |-> 0]
  /\ fail = [p \in Peers |-> 0]
  /\ contacted = <<>> /\ opened = <<>> /\ streams = {}
  /\ observed = NoErr /\ lastRes = NoRes /\ cancelFailed = {} /\ trackerCalls = <<>>
  /\ otherPc = "done"
  /\ globalSucc = 0 /\ tagged = {}
  /\ br = <<>> /\ t = ZeroDealMapping

NextGetBlocks ==
  \/ GetBlocks
  \/ GetBlocksCancelled
  \/ GetBlocksIter
  \/ GetBlocksExhausted
  \/ sendRequestToPeer
  \/ NewStream
  \/ WriteCborRPC
  \/ ReadCborRPC
  \/ fetchBlocksGraphSync
  \/ Cancel
  \/ AddPeerCall
  \/ RemovePeerCall
  \/ OtherRequestEnds

NextGetChainMessages ==
  \/ GetChainMessages
  \/ GetChainMessagesIter
  \/ GetChainMessagesExhausted
  \/ sendRequestToPeer
  \/ NewStream
  \/ WriteCborRPC
  \/ ReadCborRPC
  \/ fetchBlocksGraphSync
  \/ Cancel
  \/ AddPeerCall
  \/ RemovePeerCall
  \/ OtherRequestEnds

NextGetFullTipSet ==
  \/ GetFullTipSet
  \/ sendRequestToPeer
  \/ NewStream
  \/ WriteCborRPC
  \/ ReadCborRPC
  \/ fetchBlocksGraphSync
  \/ Cancel
  \/ AddPeerCall
  \/ RemovePeerCall
  \/ OtherRequestEnds

InitUnmarshalCBOR ==
  /\ op = "UnmarshalCBOR"
  /\ pc = "call"
  /\ br \in SeqsUpTo(Headers, MaxHeaders) \cup LongStreams
  /\ t = ZeroDealMapping
  /\ ret = NilRet
  /\ req = NoReq
  /\ peers = <<>> /\ idx = 1 /\ oerr = NoErr
  /\ cancelled = FALSE
  /\ tracked = {}
  /\ succ = [p \in Peers |-> 0]
  /\ fail = [p \in Peers |-> 0]
  /\ contacted = <<>> /\ opened = <<>> /\ streams = {}
  /\ observed = NoErr /\ lastRes = NoRes /\ cancelFailed = {} /\ trackerCalls = <<>>
  /\ otherPc = "done"
  /\ globalSucc = 0 /\ tagged = {}
  /\ fcids = <<>> /\ fi = 0 /\ out = <<>> /\ delivered = <<>>

NextUnmarshalCBOR == UnmarshalCBORCall

InitShufflePrefix ==
  /\ op = "shufflePrefix"
  /\ pc = "call"
  /\ peers \in PeerLists
  /\ idx = 1 /\ oerr = NoErr /\ ret = NilRet
  /\ req = NoReq
  /\ cancelled = FALSE
  /\ tracked = {}
  /\ succ = [p \in Peers |-> 0]
  /\ fail = [p \in Peers |-> 0]
  /\ contacted = <<>> /\ opened = <<>> /\ streams = {}
  /\ observed = NoErr /\ lastRes = NoRes /\ cancelFailed = {} /\ trackerCalls = <<>>
  /\ otherPc = "done"
  /\ globalSucc = 0 /\ tagged = {}
  /\ fcids = <<>> /\ fi = 0 /\ out = <<>> /\ delivered = <<>>
  /\ br = <<>> /\ t = ZeroDealMapping

NextShufflePrefix == shufflePrefixCall

NextFetch ==
  \/ FetchMessagesByCids
  \/ fetchCidsBlock
  \/ fetchCidsClosed

SpecGetBlocks == InitGetBlocks /\ [][NextGetBlocks]_vars

SpecGetChainMessages == InitGetChainMessages /\ [][NextGetChainMessages]_vars

SpecGetFullTipSet == InitGetFullTipSet /\ [][NextGetFullTipSet]_vars

NextRequests == NextGetBlocks \/ NextGetChainMessages \/ NextGetFullTipSet

SpecRequests == InitRequests /\ [][NextRequests]_vars

SpecUnmarshalCBOR == InitUnmarshalCBOR /\ [][NextUnmarshalCBOR]_vars

SpecShufflePrefix == InitShufflePrefix /\ [][NextShufflePrefix]_vars

SpecFetch == InitFetch /\ [][NextFetch]_vars

(* ------------------------------ properties ----------------------------- *)

InFlight == {"open", "write", "read", "gsync"}

Returned == pc = "done"

Succeeded == Returned /\ ret.err = NoErr

\* The validator's conditions on a chain, stated on the chain itself.
ChainValid(ch) ==
  /\ Len(ch) >= 1
  /\ \A i \in DOMAIN ch : NewTipSet(ch[i]).ok
  /\ \A i \in 1..(Len(ch) - 1) :
       NewTipSet(ch[i]).ts.parents = NewTipSet(ch[i + 1]).ts.cids

AcceptStatus(st) == st = StatusOK \/ st = StatusPartial

CancelErr == Wrap("blocksync getblocks failed", <<"context canceled">>)

C2_LengthAndStart ==
  (op = "GetBlocks" /\ Succeeded /\ lastRes.peer \in streams) =>
    /\ Len(ret.val) <= req.RequestLength
    /\ ret.val[1].cids = req.Start

\* C3: after an OK or PARTIAL answer whose chain the validator rejects,
\* GetBlocks has returned the validator's error (wrapped), the answering
\* peer is the last one contacted and no global success was logged.
C3_ValidatorRejectIsFatal ==
  (op = "GetBlocks" /\ AcceptStatus(lastRes.Status) /\ ~ChainValid(lastRes.Chain)) =>
    /\ Returned
    /\ ret.val = <<>>
    /\ ret.err = Wrap("success response from peer failed to process",
                      processBlocksResponse(req, lastRes).err)
    /\ Len(ret.err) = 2
    /\ Len(contacted) = idx
    /\ contacted[idx] = lastRes.peer
    /\ globalSucc = 0
    /\ tagged = {}

\* C3 witness: the first of two peers answered OK with a chain whose first
\* two tipsets are not linked; the call is over and the second peer was
\* never contacted.
C3_Witness ==
  /\ op = "GetBlocks" /\ Returned
  /\ lastRes.peer \in streams
  /\ lastRes.Status = StatusOK
  /\ ret.err = <<"success response from peer failed to process",
                 "parents of tipset[0] were not tipset[1]">>
  /\ Len(peers) = 2 /\ idx = 1
  /\ contacted = <<peers[1]>>

\* C4: a failed peer (transport error or non-success status) does not end
\* GetBlocks: when the call is over and the last peer tried had failed, it
\* was ended by the loop head, either by the cancellation check or, with
\* every peer of the list tried, by the "failed with all peers" error whose
\* cause is the error of the last peer tried.
C4_FailoverAndLastError ==
  /\ (op = "GetBlocks" /\ Returned /\ IsErr(observed)) =>
       \/ /\ idx <= Len(peers)
          /\ cancelled
          /\ ret = [err |-> CancelErr, val |-> <<>>]
       \/ /\ idx > Len(peers)
          /\ ret = [err |-> Wrap("GetBlocks failed with all peers", observed),
                    val |-> <<>>]
  /\ (op = "GetBlocks" /\ Returned /\ idx > Len(peers)) =>
       /\ contacted = peers
       /\ ret.err = Wrap("GetBlocks failed with all peers", observed)
  /\ (op = "GetBlocks" /\ pc \in {"loop", "send"}) =>
       /\ Len(contacted) = idx - 1
       /\ (idx > 1 => IsErr(observed))

\* C4 witness: both peers failed differently (an error status, then a stream
\* that could not be opened) and the call ended with the second error.
C4_Witness ==
  /\ op = "GetBlocks" /\ Returned
  /\ Len(peers) = 2 /\ idx = 3
  /\ trackerCalls = <<[fn |-> "logSuccess", peer |-> peers[1]],
                      [fn |-> "RemovePeer", peer |-> peers[2]]>>
  /\ succ[peers[1]] = 1
  /\ peers[2] \notin tracked
  /\ ret.err[1] = "GetBlocks failed with all peers"
  /\ ret.err[3] = "failed to open stream to peer"

\* C5: peers are contacted one at a time in the order of the shuffled
\* snapshot, none twice, the only request in progress being the one to the
\* current peer; and after an OK answer with a valid chain the call has
\* returned that chain with no later peer contacted.
C5_SequentialUntilSuccess ==
  op = "GetBlocks" =>
    /\ Len(contacted) <= Len(peers)
    /\ contacted = SubSeq(peers, 1, Len(contacted))
    /\ \A i, j \in DOMAIN contacted : contacted[i] = contacted[j] => i = j
    /\ pc \in InFlight => Len(contacted) = idx
    /\ pc \in {"loop", "send"} => Len(contacted) = idx - 1
    /\ Cardinality(streams) <= Len(contacted)
    /\ (lastRes.Status = StatusOK /\ ChainValid(lastRes.Chain)) =>
         /\ Succeeded
         /\ Len(ret.val) = Len(lastRes.Chain)
         /\ \A i \in DOMAIN ret.val : ret.val[i] = NewTipSet(lastRes.Chain[i]).ts
         /\ Len(contacted) = idx
         /\ contacted[idx] = lastRes.peer

\* C5 witness: the first of two peers answered OK with two linked tipsets;
\* the second peer was never contacted.
C5_Witness ==
  /\ op = "GetBlocks" /\ Succeeded
  /\ lastRes.peer \in streams
  /\ lastRes.Status = StatusOK
  /\ Len(ret.val) = 2
  /\ Len(peers) = 2 /\ idx = 1
  /\ contacted = <<peers[1]>>
  /\ trackerCalls = <<[fn |-> "logSuccess", peer |-> peers[1]]>>
  /\ succ[peers[1]] = 1

\* C6: an iteration of the GetBlocks loop that begins with ctx cancelled
\* ends the call with the cancellation error; no request is sent and no
\* stream is opened in that step, and the call being over none follows.
\* The step of the loop is the one that moves pc.
C6_CancelAtIteration ==
  [][(op = "GetBlocks" /\ pc = "loop" /\ idx <= Len(peers) /\ cancelled
      /\ pc' # pc) =>
       /\ pc' = "done"
       /\ ret' = [err |-> CancelErr, val |-> <<>>]
       /\ contacted' = contacted
       /\ opened' = opened
       /\ streams' = streams]_vars

\* C6 witness: the first peer failed, ctx was cancelled, and GetBlocks
\* returned the cancellation error without contacting the second peer.
C6_Witness ==
  /\ op = "GetBlocks" /\ Returned
  /\ ret.err = CancelErr
  /\ Len(peers) = 2 /\ idx = 2
  /\ contacted = <<peers[1]>>
  /\ peers[2] \notin Range(opened)

\* C7 (as claimed): in GetChainMessages a cancellation seen between two
\* peers ends the call with an error and no request is sent to the
\* remaining peers. The step of the loop is the one that moves pc.
C7_GetChainMessagesCancel ==
  [][(op = "GetChainMessages" /\ pc = "loop" /\ 2 <= idx /\ idx <= Len(peers)
      /\ cancelled /\ pc' # pc) =>
       /\ pc' = "done"
       /\ IsErr(ret'.err)
       /\ contacted' = contacted]_vars

\* C8 (as claimed): the step in which the stream open, write or read to a
\* peer fails after the context was cancelled leaves the peer tracked if it
\* was, and logs no failure for it.
C8_CancelIsNoPeerFailure ==
  [][op = "GetBlocks" =>
       \A p \in cancelFailed' \ cancelFailed :
         /\ p \in tracked => p \in tracked'
         /\ fail'[p] = fail[p]]_vars

\* C9 (as claimed): the step in which a tracked peer answers GetBlocks with
\* a non-success status increments its failure count by one and leaves its
\* success count untouched.
C9_StatusErrorCountsAsFailure ==
  [][(op = "GetBlocks" /\ pc = "read" /\ CurPeer \in tracked
      /\ lastRes' # NoRes /\ lastRes'.Status \in ErrorStatuses) =>
       /\ fail'[CurPeer] = fail[CurPeer] + 1
       /\ succ'[CurPeer] = succ[CurPeer]]_vars

\* C10 (as claimed): a Fetch that returns no error returns len(cids)
\* messages, the i-th being the decoded block of cids[i].
C10_FetchComplete ==
  (op \in {"FetchMessagesByCids", "FetchSignedMessagesByCids"} /\ Succeeded) =>
    /\ Len(ret.val) = Len(fcids)
    /\ \A i \in DOMAIN fcids : ret.val[i] = [kind |-> MsgKind, cid |-> fcids[i]]

\* The blocks received so far hold a cid that was not requested.
Unsolicited == \E i \in DOMAIN delivered : cidIndex(fcids, delivered[i]) = -1

\* The blocks received so far hold the same cid twice.
Duplicated ==
  \E i, j \in DOMAIN delivered : i < j /\ delivered[i] = delivered[j]

\* C11: once the block service has emitted a block whose cid was not
\* requested, or a second block for a cid it already emitted, the Fetch
\* call has failed and its output is nil.
C11_UnsolicitedOrDuplicateFails ==
  (op \in {"FetchMessagesByCids", "FetchSignedMessagesByCids"}
     /\ (Unsolicited \/ Duplicated)) =>
    /\ pc = "done"
    /\ IsErr(ret.err)
    /\ ret.val = <<>>

\* A requested block was stored, then emitted again: the call failed with
\* the duplicate error.
C11_Witness ==
  /\ op = "FetchMessagesByCids"
  /\ Len(fcids) = 2 /\ fcids[1] # fcids[2]
  /\ delivered = <<fcids[1], fcids[1]>>
  /\ pc = "done"
  /\ ret = [err |-> <<"received duplicate message">>, val |-> <<>>]

\* C12 (as claimed): every stream opened for a request is released before
\* the request returns, on every exit path: the only stream still held is
\* that of the request in flight.
C12_StreamsReleased ==
  \A p \in streams : pc \in {"write", "read"} /\ p = CurPeer

\* A step of fetchBlocksBlockSync that fails at the given stage, before any
\* response was read: the call does not go on to the stage after it.
TransportFails(stage, next) ==
  /\ pc = stage
  /\ pc' \notin {stage, next}
  /\ lastRes' = NoRes

\* The calls the step makes to the peer tracker.
NewTrackerCalls ==
  {trackerCalls'[i] : i \in (Len(trackerCalls) + 1)..Len(trackerCalls')}

\* C13 (as claimed): the step in which the open of the stream, the write of
\* the request or the read of the response fails on the path to peer p calls
\* logFailure(p) before the error reaches the dispatch loop, whatever else it
\* does to the tracker.
C13_TransportErrorLogsFailure ==
  [][(\/ TransportFails("open", "write")
      \/ TransportFails("write", "read")
      \/ TransportFails("read", "read"))
       => TrackerCall("logFailure") \in NewTrackerCalls]_vars

\* C14: GetFullTipSet sends one request, of length 1 with options
\* BLOCKS|MESSAGES, to the peer it was given and to no other; it returns a
\* full tipset only for status OK with a non-empty chain, built from
\* chain[0]; any other response and any send error ends the call with an
\* error, with no second request.
C14_GetFullTipSetSingleRequest ==
  op = "GetFullTipSet" =>
    /\ pc # "call" =>
         /\ Len(peers) = 1
         /\ req.RequestLength = 1
         /\ req.Options = BSOptBlocks + BSOptMessages
    /\ Len(contacted) <= 1 /\ Len(opened) <= 1
    /\ \A i \in DOMAIN contacted : contacted[i] = peers[1]
    /\ \A i \in DOMAIN opened : opened[i] = peers[1]
    /\ pc = "done" => Len(contacted) = 1
    /\ Succeeded =>
         /\ lastRes.peer = peers[1]
         /\ lastRes.Status = StatusOK
         /\ lastRes.Chain # <<>>
         /\ ret.val = <<bstsToFullTipSet(lastRes.Chain[1]).fts>>
    /\ (lastRes # NoRes /\ ~(lastRes.Status = StatusOK /\ lastRes.Chain # <<>>)) =>
         pc = "done" /\ IsErr(ret.err) /\ ret.val = <<>>
    /\ (lastRes = NoRes /\ IsErr(observed)) =>
         pc = "done" /\ ret.err = observed /\ ret.val = <<>>

\* A partial response with a tipset was read over the stream and the call
\* failed after its one request.
C14_Witness ==
  /\ op = "GetFullTipSet"
  /\ pc = "done"
  /\ contacted = peers /\ opened = peers
  /\ lastRes.Status = StatusPartial /\ lastRes.Chain # <<>>
  /\ ret = [err |-> <<"partial responses are not handled for single tipset fetching">>,
            val |-> <<>>]

\* C15: a GetBlocks response with status OK and an empty chain ends the call
\* with the error "got no blocks in successful blocksync response" and no
\* result.
C15_EmptyOkIsError ==
  (op = "GetBlocks" /\ lastRes.Status = StatusOK /\ lastRes.Chain = <<>>) =>
    /\ pc = "done"
    /\ ret.err = <<"success response from peer failed to process",
                   "got no blocks in successful blocksync response">>
    /\ ret.val = <<>>

\* The second peer answered OK with no tipsets over its stream after the
\* first one failed.
C15_Witness ==
  /\ op = "GetBlocks"
  /\ Len(contacted) = 2
  /\ lastRes.peer = contacted[2] /\ lastRes.peer \in streams
  /\ lastRes.Status = StatusOK /\ lastRes.Chain = <<>>
  /\ pc = "done" /\ IsErr(ret.err)

\* C16 (as claimed): GetBlocks called with count 0 returns an empty list of
\* tipsets and no error, here once a peer has answered its request with
\* status OK over the stream.
C16_ZeroCountReturnsEmpty ==
  (op = "GetBlocks" /\ pc # "call" /\ req.RequestLength = 0
     /\ lastRes.Status = StatusOK /\ lastRes.peer \in streams) =>
    /\ pc = "done"
    /\ ret.err = NoErr
    /\ ret.val = <<>>

\* Number of deal ids the second header of s announces.
Announced(s) == IF Len(s) >= 2 THEN s[2].extra ELSE 0

\* The top-level item of s is not an array.
NotArray(s) == Len(s) >= 1 /\ s[1].maj # MajArray

\* The top-level array of s does not have three fields.
WrongFieldCount(s) == Len(s) >= 1 /\ s[1].extra # DealMappingFields

\* The array field of s is longer than the limit.
TooLong(s) == Len(s) >= 2 /\ s[2].extra > MaxDealIDs

\* A field of s, or an element of its array field, has the wrong major type.
WrongMajor(s) ==
  LET n == Announced(s)
  IN /\ Len(s) >= 2
     /\ \/ s[2].maj # MajArray
        \/ \E i \in 1..Min(n, Len(s) - 2) : s[2 + i].maj # MajUnsignedInt
        \/ Len(s) >= n + 3 /\ s[n + 3].maj # MajUnsignedInt
        \/ Len(s) >= n + 4 /\ s[n + 4].maj # MajOther

\* The boolean field of s is a simple value other than false and true.
BadBool(s) ==
  LET n == Announced(s)
  IN Len(s) >= n + 4 /\ s[n + 4].extra \notin {CborFalse, CborTrue}

\* The input ends before the last header the decoder reads.
Truncated(s) == Len(s) < 2 \/ Len(s) < Announced(s) + 4

\* C17: UnmarshalCBOR returns an error, never nil, when the top-level item
\* is not an array, when its field count is not 3, when the array field is
\* longer than 8192, when a field or element has the wrong major type, when
\* the boolean is neither 20 nor 21 and when the input ends before a header
\* it reads; any other input, one with 8192 deal ids among them, decodes
\* without error into the fields it encodes.
C17_DecoderRejectsMalformed ==
  (op = "UnmarshalCBOR" /\ pc = "done") =>
    IF \/ NotArray(br) \/ WrongFieldCount(br) \/ TooLong(br)
       \/ WrongMajor(br) \/ BadBool(br) \/ Truncated(br)
      THEN IsErr(ret.err)
      ELSE /\ ret.err = NoErr
           /\ t.DealIDs = [i \in 1..Announced(br) |-> br[2 + i].extra]
           /\ t.Allocated = br[Announced(br) + 3].extra
           /\ t.Committed = (br[Announced(br) + 4].extra = CborTrue)

\* A whole encoding with 8193 deal ids was refused for its length.
C17_Witness ==
  /\ op = "UnmarshalCBOR" /\ pc = "done"
  /\ br = LongStream(MaxDealIDs + 1, MaxDealIDs + 5)
  /\ ret.err = <<"t.DealIDs: array too large (8193)">>

\* C18: the first protocol SupportsProtocols returns for the query
\* (blocksync, graphsync) selects the transport; a peer that supports
\* neither is given up with an error, with no stream opened, no failure
\* logged and no change of the tracker, and the loop goes on with the next
\* peer.
C18_FirstProtocolSelects ==
  [][\A supp \in SuppOutcomes :
       (op = "GetBlocks" /\ ~supp.err /\ sendRequestToPeerOn(supp)) =>
         /\ contacted' = Append(contacted, CurPeer)
         /\ (supp.protos # <<>> /\ supp.protos[1] = BlockSyncProtocolID) =>
              pc' = "open"
         /\ (supp.protos # <<>> /\ supp.protos[1] = gsproto) => pc' = "gsync"
         /\ supp.protos = <<>> =>
              /\ IsErr(observed')
              /\ opened' = opened /\ streams' = streams
              /\ fail' = fail /\ succ' = succ /\ tracked' = tracked
              /\ pc' = "loop" /\ idx' = idx + 1
              /\ ret' = ret]_vars

\* The first peer supported no known protocol: it is still tracked with no
\* failure and no stream, and the second peer is being opened.
C18_Witness ==
  /\ op = "GetBlocks"
  /\ Len(peers) = 2 /\ idx = 2 /\ pc = "open"
  /\ contacted = peers
  /\ opened = <<>> /\ streams = {}
  /\ oerr = <<"peer " \o ToString(peers[1]) \o " supports no known sync protocols">>
  /\ trackerCalls = <<>>
  /\ peers[1] \in tracked /\ fail[peers[1]] = 0

\* Number of entries of s equal to x.
Occurrences(s, x) == Cardinality({i \in DOMAIN s : s[i] = x})

\* C19: shufflePrefix leaves the length of the list, permutes its contents
\* (each peer occurs as often as before), keeps in the first min(5, len)
\* positions the peers that were there, leaves every entry from the sixth
\* on as it was, and does nothing to an empty list.
C19_ShuffleOnlyPrefix ==
  [][(op = "shufflePrefix" /\ pc = "call" /\ pc' = "done") =>
       LET pref == Min(ShufflePrefixLen, Len(peers))
       IN /\ Len(peers') = Len(peers)
          /\ \A x \in 1..MaxList : Occurrences(peers', x) = Occurrences(peers, x)
          /\ {peers'[i] : i \in 1..pref} = {peers[i] : i \in 1..pref}
          /\ \A i \in DOMAIN peers : i > ShufflePrefixLen => peers'[i] = peers[i]
          /\ peers = <<>> => peers' = <<>>]_vars

\* A list longer than the prefix after the call: the prefix is out of its
\* ascending order, the sixth entry is the one only an ascending list has
\* there.
C19_Witness ==
  /\ op = "shufflePrefix" /\ pc = "done"
  /\ Len(peers) = ShufflePrefixLen + 1
  /\ peers[1] = ShufflePrefixLen /\ peers[ShufflePrefixLen] = 1
  /\ peers[ShufflePrefixLen + 1] = ShufflePrefixLen + 1

\* The tracker after one more success, or one more failure, of peer p is
\* reported: it counts when the tracker still has p.
OneMoreSuccess(p) ==
  /\ succ' = IF p \in tracked THEN [succ EXCEPT ![p] = @ + 1] ELSE succ
  /\ fail' = fail /\ tracked' = tracked

OneMoreFailure(p) ==
  /\ fail' = IF p \in tracked THEN [fail EXCEPT ![p] = @ + 1] ELSE fail
  /\ succ' = succ /\ tracked' = tracked

\* The entry of p is dropped from the tracker, if it has one.
Dropped(p) ==
  /\ tracked' = tracked \ {p}
  /\ succ' = [succ EXCEPT ![p] = 0]
  /\ fail' = [fail EXCEPT ![p] = 0]

\* C20: in every operation, a call of fetchBlocksBlockSync for peer p makes
\* one call to the peer tracker, for p, decided by the first step that
\* fails: a failed open calls RemovePeer(p) and logs nothing, a failed write
\* calls logFailure(p) once, a failed read calls logFailure(p) once, a
\* response that is read calls logSuccess(p) once whatever its status; the
\* steps that succeed before call nothing. The tracker changes by that call
\* alone (a log for a peer it no longer has counts nothing), and the calls
\* on record are one per call that is over, each for the peer that was
\* opened.
C20_OneOutcomePerCall ==
  /\ [](/\ Len(trackerCalls) = Len(opened) - (IF pc \in {"write", "read"} THEN 1 ELSE 0)
        /\ \A i \in DOMAIN trackerCalls : trackerCalls[i].peer = opened[i])
  /\ [][(pc \in {"open", "write", "read"} /\ pc' # pc) =>
          /\ (pc = "open" /\ pc' = "write") =>
               UNCHANGED <<tracked, succ, fail, trackerCalls>>
          /\ (pc = "open" /\ pc' # "write") =>
               /\ trackerCalls' = Append(trackerCalls, TrackerCall("RemovePeer"))
               /\ Dropped(CurPeer)
          /\ (pc = "write" /\ pc' = "read") =>
               UNCHANGED <<tracked, succ, fail, trackerCalls>>
          /\ (pc = "write" /\ pc' # "read") =>
               /\ trackerCalls' = Append(trackerCalls, TrackerCall("logFailure"))
               /\ OneMoreFailure(CurPeer)
          /\ (pc = "read" /\ lastRes' = NoRes) =>
               /\ trackerCalls' = Append(trackerCalls, TrackerCall("logFailure"))
               /\ OneMoreFailure(CurPeer)
          /\ (pc = "read" /\ lastRes' # NoRes) =>
               /\ trackerCalls' = Append(trackerCalls, TrackerCall("logSuccess"))
               /\ OneMoreSuccess(CurPeer)]_vars

\* GetFullTipSet was given a peer the tracker does not have and the write or
\* the read failed: logFailure was called once for it and nothing was counted.
C20_Witness ==
  /\ op = "GetFullTipSet" /\ pc = "done"
  /\ opened = peers /\ peers[1] \notin tracked
  /\ lastRes = NoRes
  /\ trackerCalls = <<[fn |-> "logFailure", peer |-> peers[1]]>>
  /\ fail[peers[1]] = 0 /\ succ[peers[1]] = 0

====
